---- MODULE Spec2Model ----
(***************************************************************************)
(* A model of src/include/Vector.h: Vector<E>, a growable array kept in a  *)
(* heap block (pv) of N slots of which the first n are live.               *)
(*                                                                         *)
(* The heap is modelled explicitly (blocks that are free, live, or were    *)
(* deleted while not live), every Vector object is its three fields, and   *)
(* every member function is an operator from (heap, object, arguments) to  *)
(* (heap, object, exception).  An action is one call of a public member.   *)
(*                                                                         *)
(* insert(iterator pos, E elem) and remove(iterator pos) use an index `i`  *)
(* that the source never declares; the model reads it as the index of pos, *)
(* i = pos - begin(), which is what the comments of both functions say.    *)
(***************************************************************************)
EXTENDS Integers, Sequences, FiniteSets, TLC

(***************************************************************************)
(* Program constants.                                                      *)
(***************************************************************************)
DEFAULT_CAPACITY == 10

\* nullptr
NULL == 0

\* E(): the value of a value-initialised slot, new E[N]()
DefaultE == 0

\* The content of a slot whose value the program does not determine: a slot
\* of new E[N] (not value-initialised), a moved-from element, a slot outside
\* the block.  Reading it yields any value (see Resolve).
Indet == -1

(***************************************************************************)
(* Bounds of the model.                                                    *)
(***************************************************************************)
\* SpecOne, SpecPush: the constructor is called with count in 0..MaxCount or
\* with DEFAULT_CAPACITY
MaxCount == 2

\* SpecOne: insertions are made while n < OneMaxLen
OneMaxLen == 3

\* SpecPush: insert_back is called while n < PushMaxLen
PushMaxLen == 11

\* SpecOwn: insertions are made while n < OwnMaxLen, += and + while the
\* lengths sum to at most OwnMaxLen and the capacities to at most OwnMaxCap
OwnMaxLen == 2

OwnMaxCap == 2

\* SpecOwn: the constructor is called with count in 0..OwnMaxCount
OwnMaxCount == 1

\* SpecDefault: insertions are made while n < DefMaxLen, += while the lengths
\* sum to at most DefMaxLen and the capacities to at most DefMaxCap
DefMaxLen == 2

DefMaxCap == 20

\* SpecCat: both Vectors are constructed with a count in 1..CatMaxCount;
\* insert_back and += are called while the length stays within CatMaxLen and
\* the capacity within CatMaxCap
CatMaxCount == 1

CatMaxLen == 2

CatMaxCap == 2

\* SpecAssign: both Vectors are constructed with a count in
\* 1..AssignMaxCount; insert_back is called while the length stays within
\* AssignMaxLen and the capacity within AssignMaxCap
AssignMaxCount == 2

AssignMaxLen == 2

AssignMaxCap == 4

\* SpecCopy: the original is constructed with a count in 1..CopyMaxCount;
\* insertions and += are made while the length stays within CopyMaxLen and
\* the capacity within CopyMaxCap
CopyMaxCount == 1

CopyMaxLen == 2

CopyMaxCap == 2

\* The element values.  Vector<E> never inspects an element (operator== alone
\* compares two), so two distinct values show every order and every mix-up.
Elem == {1, 2}

\* The Vector objects: this and that of the members that take two.
Objs == {1, 2}

\* One block per object and two more: a call holds at most two blocks beyond
\* those of the objects in their lifetime (operator+ holds the copy made for
\* its by-value parameter and the tmp of reserve; operator= holds the copy,
\* the other members that allocate the tmp of reserve).
Blocks == 1..(Cardinality(Objs) + 2)

Counts == (0..MaxCount) \cup {DEFAULT_CAPACITY}

PosCounts == Counts \ {0}

VARIABLES
    vec,    \* vec[o]: the object o: [st, n, N, pv]; st is "none" outside its lifetime
    heap,   \* heap[b]: the block b: [st, cells]
    res,    \* the outcome of the last call: [err, ret], the exception's what()
            \* ("none": it returned) and what it returned: the element a
            \* returned reference names, the bool of == and !=, what is read
            \* of the temporary a + b
    call    \* the last call: [op, i, v], in the specifications that log it

vars == <<call, vec, heap, res>>

(***************************************************************************)
(* The heap: new[], delete[], and the accesses through a pointer.          *)
(***************************************************************************)
FreeBlock == [st |-> "free", cells |-> <<>>]

EmptyHeap == [b \in Blocks |-> FreeBlock]

FreeBlocks(h) == {b \in Blocks : h[b].st = "free"}

\* new E[N] / new E[N](): a block that is not in use, N slots holding x.
\* Blocks has a block for every allocation of a program that deletes what
\* it allocates; one that does not gets no block (p is NULL) once they are
\* used up.
New(h, N, x) ==
    IF FreeBlocks(h) = {} THEN [h |-> h, p |-> NULL]
    ELSE LET b == CHOOSE c \in FreeBlocks(h) : \A d \in FreeBlocks(h) : c <= d
         IN  [h |-> [h EXCEPT ![b] = [st |-> "live", cells |-> [k \in 1..N |-> x]]],
              p |-> b]

\* delete[] p: nothing for nullptr; deleting a block that is not live (a
\* second delete) is recorded in the block
Delete(h, p) ==
    IF p = NULL THEN h
    ELSE IF h[p].st = "live" THEN [h EXCEPT ![p] = FreeBlock]
    ELSE [h EXCEPT ![p].st = "bad"]

InBlock(h, p, k) ==
    /\ p # NULL
    /\ h[p].st = "live"
    /\ k >= 0
    /\ k < Len(h[p].cells)

\* *(p + k) read: outside a live block the value is not determined
Load(h, p, k) == IF InBlock(h, p, k) THEN h[p].cells[k + 1] ELSE Indet

\* *(p + k) = x: outside the block the write does not reach a slot of it
Store(h, p, k, x) ==
    IF InBlock(h, p, k) THEN [h EXCEPT ![p].cells[k + 1] = x] ELSE h

\* the values a read of a slot holding c can yield
Resolve(c) == IF c = Indet THEN Elem \cup {DefaultE} ELSE {c}

\* std::copy(sp + first, sp + last, dp + d)
RECURSIVE StdCopy(_, _, _, _, _, _)
StdCopy(h, sp, first, last, dp, d) ==
    IF first >= last THEN h
    ELSE StdCopy(Store(h, dp, d, Load(h, sp, first)), sp, first + 1, last, dp, d + 1)

\* std::move(sp + first, sp + last, dp + d): front to back, each source is
\* left moved-from
RECURSIVE StdMove(_, _, _, _, _, _)
StdMove(h, sp, first, last, dp, d) ==
    IF first >= last THEN h
    ELSE StdMove(Store(Store(h, dp, d, Load(h, sp, first)), sp, first, Indet),
                 sp, first + 1, last, dp, d + 1)

\* std::move_backward(sp + first, sp + last, dp + dlast): back to front
RECURSIVE StdMoveBackward(_, _, _, _, _, _)
StdMoveBackward(h, sp, first, last, dp, dlast) ==
    IF first >= last THEN h
    ELSE StdMoveBackward(
             Store(Store(h, dp, dlast - 1, Load(h, sp, last - 1)), sp, last - 1, Indet),
             sp, first, last - 1, dp, dlast - 1)

(***************************************************************************)
(* Vector<E>: the members, on (heap, object).                              *)
(***************************************************************************)
NoVector == [st |-> "none", n |-> 0, N |-> 0, pv |-> NULL]

\* valid with the upper bound off by one: i <= n
valid_upto_n(v, i) == i >= 0 /\ i <= v.n

valid(v, i) == i >= 0 /\ i < v.n

size(v) == v.n

capacity(v) == v.N

empty(v) == v.n = 0

\* Vector(int count)
Vector(h, count) ==
    LET a == New(h, count, DefaultE)
    IN  [h |-> a.h, v |-> [st |-> "live", n |-> 0, N |-> count, pv |-> a.p]]

\* a copy constructor that copies the pointer instead of the elements
VectorCopy_shares_block(h, that) ==
    [h |-> h, v |-> [st |-> "live", n |-> that.n, N |-> that.N, pv |-> that.pv]]

\* Vector(const Vector& that)
VectorCopy(h, that) ==
    LET a == New(h, that.N, Indet)
    IN  [h |-> StdCopy(a.h, that.pv, 0, that.n, a.p, 0),
         v |-> [st |-> "live", n |-> that.n, N |-> that.N, pv |-> a.p]]

\* the move constructor without `that.pv = nullptr`
VectorMove_keeps_pv(that) ==
    [v |-> [st |-> "live", n |-> that.n, N |-> that.N, pv |-> that.pv],
     that |-> that]

\* Vector(Vector&& that)
VectorMove(that) ==
    [v |-> [st |-> "live", n |-> that.n, N |-> that.N, pv |-> that.pv],
     that |-> [that EXCEPT !.pv = NULL]]

\* ~Vector()
VectorDtor(h, v) == Delete(h, v.pv)

\* this->swap(that)
swap(this, that) ==
    [this |-> [this EXCEPT !.n = that.n, !.N = that.N, !.pv = that.pv],
     that |-> [that EXCEPT !.n = this.n, !.N = this.N, !.pv = this.pv]]

\* assert(count >= size()) of reserve.  The model follows a build with NDEBUG,
\* where reserve goes on whatever the assertion says; what it says is the ok
\* of reserve and of the members that call it (TRUE when they do not), and
\* rsv is whether they called it.
reserve_assert(v, count) == count >= size(v)

\* reserve without `tmp.n = n`: the size is lost in the swap
reserve_drops_size(h, v, count) ==
    LET t  == Vector(h, count)
        h1 == StdMove(t.h, v.pv, 0, v.n, t.v.pv, 0)
        s  == swap(v, t.v)
    IN  [h   |-> VectorDtor(h1, s.that),
         v   |-> s.this,
         ok  |-> reserve_assert(v, count),
         rsv |-> TRUE]

reserve(h, v, count) ==
    LET t   == Vector(h, count)
        h1  == StdMove(t.h, v.pv, 0, v.n, t.v.pv, 0)
        tmp == [t.v EXCEPT !.n = v.n]
        s   == swap(v, tmp)
    IN  [h   |-> VectorDtor(h1, s.that),
         v   |-> s.this,
         ok  |-> reserve_assert(v, count),
         rsv |-> TRUE]

\* a member going on without a call of reserve
NoReserve(h, v) == [h |-> h, v |-> v, ok |-> TRUE, rsv |-> FALSE]

\* the slots p[first], ..., p[last - 1] a member writes are slots of p's block
Within(h, p, first, last) == \A k \in first..(last - 1) : InBlock(h, p, k)

\* a member that throws: nothing reserved, nothing written
Throws(h, v, what) ==
    [h |-> h, v |-> v, err |-> what, ok |-> TRUE, rsv |-> FALSE, inb |-> TRUE]

\* Each member gives the heap and the object it leaves, the exception it
\* throws, rsv: whether it called reserve, ok: what the assertion of reserve
\* said, and inb: whether the element slots it wrote were within the block.
insert_back(h, v, elem) ==
    LET r == IF v.n = v.N THEN reserve(h, v, v.N * 2) ELSE NoReserve(h, v)
    IN  [h   |-> Store(r.h, r.v.pv, r.v.n, elem),
         v   |-> [r.v EXCEPT !.n = @ + 1],
         err |-> "none",
         ok  |-> r.ok,
         rsv |-> r.rsv,
         inb |-> Within(r.h, r.v.pv, r.v.n, r.v.n + 1)]

\* insert growing a full Vector before it looks at i
insert_grows_first(h, v, i, elem) ==
    LET r == IF v.n = v.N THEN reserve(h, v, v.N * 2) ELSE NoReserve(h, v)
    IN  IF i = v.n THEN insert_back(h, v, elem)
        ELSE IF ~valid(v, i)
        THEN Throws(r.h, r.v, "Vector::insert() i out of range.")
        ELSE LET h1 == StdMoveBackward(r.h, r.v.pv, i, r.v.n, r.v.pv, r.v.n + 1)
             IN  [h   |-> Store(h1, r.v.pv, i, elem),
                  v   |-> [r.v EXCEPT !.n = @ + 1],
                  err |-> "none",
                  ok  |-> r.ok,
                  rsv |-> r.rsv,
                  inb |-> Within(r.h, r.v.pv, i, r.v.n + 1)]

insert(h, v, i, elem) ==
    IF i = v.n THEN insert_back(h, v, elem)
    ELSE IF ~valid(v, i)
    THEN Throws(h, v, "Vector::insert() i out of range.")
    ELSE LET r  == IF v.n = v.N THEN reserve(h, v, v.N * 2) ELSE NoReserve(h, v)
             h1 == StdMoveBackward(r.h, r.v.pv, i, r.v.n, r.v.pv, r.v.n + 1)
         IN  [h   |-> Store(h1, r.v.pv, i, elem),
              v   |-> [r.v EXCEPT !.n = @ + 1],
              err |-> "none",
              ok  |-> r.ok,
              rsv |-> r.rsv,
              inb |-> Within(r.h, r.v.pv, i, r.v.n + 1)]

\* the shrink made at half of the capacity
AtHalf(v) == v.n > 0 /\ v.n = v.N \div 2

\* if (n > 0 && n == N / 4) of remove and remove_back
AtQuarter(v) == v.n > 0 /\ v.n = v.N \div 4

remove_back(h, v) ==
    IF empty(v) THEN Throws(h, v, "Vector::remove_back")
    ELSE LET r == IF AtQuarter(v)
                  THEN reserve(h, v, v.N \div 2)
                  ELSE NoReserve(h, v)
         IN  [h   |-> r.h,
              v   |-> r.v,
              err |-> "none",
              ok  |-> r.ok,
              rsv |-> r.rsv,
              inb |-> TRUE]

\* remove without the shrink
remove_never_shrinks(h, v, i) ==
    IF i = v.n - 1 THEN remove_back(h, v)
    ELSE IF ~valid(v, i)
    THEN Throws(h, v, "Vector::remove() i out of range.")
    ELSE [h   |-> StdMove(h, v.pv, i + 1, v.n, v.pv, i),
          v   |-> [v EXCEPT !.n = @ - 1],
          err |-> "none",
          ok  |-> TRUE,
          rsv |-> FALSE,
          inb |-> Within(h, v.pv, i, v.n - 1)]

remove(h, v, i) ==
    IF i = v.n - 1 THEN remove_back(h, v)
    ELSE IF ~valid(v, i)
    THEN Throws(h, v, "Vector::remove() i out of range.")
    ELSE LET h1 == StdMove(h, v.pv, i + 1, v.n, v.pv, i)
             v1 == [v EXCEPT !.n = @ - 1]
             r  == IF AtQuarter(v1)
                   THEN reserve(h1, v1, v1.N \div 2)
                   ELSE NoReserve(h1, v1)
         IN  [h   |-> r.h,
              v   |-> r.v,
              err |-> "none",
              ok  |-> r.ok,
              rsv |-> r.rsv,
              inb |-> Within(h, v.pv, i, v.n - 1)]

\* operator[](int i) const
OpIndex(h, v, i) == Load(h, v.pv, i)

at(h, v, i) ==
    IF ~valid(v, i) THEN [err |-> "Vector::at", val |-> Indet]
    ELSE [err |-> "none", val |-> OpIndex(h, v, i)]

front(h, v) ==
    IF empty(v) THEN [err |-> "Vector::front", val |-> Indet]
    ELSE [err |-> "none", val |-> Load(h, v.pv, 0)]

back(h, v) ==
    IF empty(v) THEN [err |-> "Vector::back", val |-> Indet]
    ELSE [err |-> "none", val |-> Load(h, v.pv, v.n - 1)]

clear(v) == [v EXCEPT !.n = 0]

\* operator= without the swap: the parameter is destroyed as it came
OpAssign_without_swap(h, this, that) ==
    [h |-> VectorDtor(h, that), v |-> this]

\* Vector& operator=(Vector that): that is the by-value parameter, already
\* constructed from the argument, and destroyed when the call returns
OpAssign(h, this, that) ==
    LET s == swap(this, that)
    IN  [h |-> VectorDtor(h, s.that), v |-> s.this]

\* operator+= copying the elements of that to begin() instead of end()
OpPlusAssign_copies_to_begin(h, this, that, same) ==
    LET r   == reserve(h, this, this.N + that.N)
        src == IF same THEN r.v ELSE that
    IN  [h   |-> StdCopy(r.h, src.pv, 0, src.n, r.v.pv, 0),
         v   |-> [r.v EXCEPT !.n = @ + src.n],
         ok  |-> r.ok,
         rsv |-> r.rsv,
         inb |-> Within(r.h, r.v.pv, 0, src.n)]

\* Vector& operator+=(const Vector& that); same: that is *this
OpPlusAssign(h, this, that, same) ==
    LET r   == reserve(h, this, this.N + that.N)
        src == IF same THEN r.v ELSE that
    IN  [h   |-> StdCopy(r.h, src.pv, 0, src.n, r.v.pv, r.v.n),
         v   |-> [r.v EXCEPT !.n = @ + src.n],
         ok  |-> r.ok,
         rsv |-> r.rsv,
         inb |-> Within(r.h, r.v.pv, r.v.n, r.v.n + src.n)]

\* Vector operator+(Vector lhs, const Vector& rhs): lhs is the by-value
\* parameter; the result is move-constructed from it, then it is destroyed
OpPlus(h, lhs, rhs) ==
    LET r == OpPlusAssign(h, lhs, rhs, FALSE)
        m == VectorMove(r.v)
    IN  [h |-> VectorDtor(r.h, m.that), v |-> m.v]

\* the outcomes of *(lp + k) == *(rp + k)
EqAt(h, lp, rp, k) ==
    {x = y : x \in Resolve(Load(h, lp, k)), y \in Resolve(Load(h, rp, k))}

\* std::equal(lp + first, lp + last, rp + first): false at the first pair
\* that differs; the outcomes it can have
RECURSIVE StdEqual(_, _, _, _, _)
StdEqual(h, lp, first, last, rp) ==
    IF first >= last THEN {TRUE}
    ELSE (IF FALSE \in EqAt(h, lp, rp, first) THEN {FALSE} ELSE {})
         \cup (IF TRUE \in EqAt(h, lp, rp, first)
                THEN StdEqual(h, lp, first + 1, last, rp)
                ELSE {})

\* operator== that compares the elements of lhs without comparing the sizes
OpEq_ignores_size(h, lhs, rhs, same) ==
    IF same THEN {TRUE} ELSE StdEqual(h, lhs.pv, 0, lhs.n, rhs.pv)

\* bool operator==(const Vector& lhs, const Vector& rhs); same: &lhs == &rhs
OpEq(h, lhs, rhs, same) ==
    IF same THEN {TRUE}
    ELSE IF size(lhs) # size(rhs) THEN {FALSE}
    ELSE StdEqual(h, lhs.pv, 0, lhs.n, rhs.pv)

\* bool operator!=(const Vector& lhs, const Vector& rhs)
OpNe(h, lhs, rhs, same) == {~r : r \in OpEq(h, lhs, rhs, same)}

(***************************************************************************)
(* The calls.  An object is usable while it is in its lifetime and has not *)
(* been moved from: the members other than the destructor, swap and the    *)
(* target side of operator= dereference pv.                                *)
(***************************************************************************)
Live(o) == vec[o].st = "live"

Usable(o) == Live(o) /\ vec[o].pv # NULL

Res(err, ret) == [err |-> err, ret |-> ret]

Returns == Res("none", Indet)

\* the live elements of o, first to last, as begin()..end() traverses them
Contents(o) == [k \in 1..vec[o].n |-> Load(heap, vec[o].pv, k - 1)]

\* Vector<E> o(count);
Create(o, count) ==
    /\ ~Live(o)
    /\ LET c == Vector(heap, count)
       IN  /\ heap' = c.h
           /\ vec' = [vec EXCEPT ![o] = c.v]
    /\ res' = Returns

\* Vector<E> o(a);
CopyOf(o, a) ==
    /\ ~Live(o)
    /\ Usable(a)
    /\ LET c == VectorCopy(heap, vec[a])
       IN  /\ heap' = c.h
           /\ vec' = [vec EXCEPT ![o] = c.v]
    /\ res' = Returns

\* Vector<E> o(std::move(a));
MoveOf(o, a) ==
    /\ ~Live(o)
    /\ Usable(a)
    /\ LET m == VectorMove(vec[a])
       IN  vec' = [vec EXCEPT ![o] = m.v, ![a] = m.that]
    /\ heap' = heap
    /\ res' = Returns

\* the end of o's lifetime
Destroy(o) ==
    /\ Live(o)
    /\ heap' = VectorDtor(heap, vec[o])
    /\ vec' = [vec EXCEPT ![o] = NoVector]
    /\ res' = Returns

InsertBack(o, elem) ==
    /\ Usable(o)
    /\ LET r == insert_back(heap, vec[o], elem)
       IN  /\ heap' = r.h
           /\ vec' = [vec EXCEPT ![o] = r.v]
           /\ res' = Res(r.err, Indet)

\* o.insert(o.begin() + i, elem)
Insert(o, i, elem) ==
    /\ Usable(o)
    /\ LET r == insert(heap, vec[o], i, elem)
       IN  /\ heap' = r.h
           /\ vec' = [vec EXCEPT ![o] = r.v]
           /\ res' = Res(r.err, Indet)

\* o.remove(o.begin() + i)
Remove(o, i) ==
    /\ Usable(o)
    /\ LET r == remove(heap, vec[o], i)
       IN  /\ heap' = r.h
           /\ vec' = [vec EXCEPT ![o] = r.v]
           /\ res' = Res(r.err, Indet)

RemoveBack(o) ==
    /\ Usable(o)
    /\ LET r == remove_back(heap, vec[o])
       IN  /\ heap' = r.h
           /\ vec' = [vec EXCEPT ![o] = r.v]
           /\ res' = Res(r.err, Indet)

\* what a call that returns a reference to an element hands to the caller
Returned(r) == IF r.err = "none" THEN Resolve(r.val) ELSE {Indet}

At(o, i) ==
    /\ Usable(o)
    /\ LET r == at(heap, vec[o], i)
       IN  \E x \in Returned(r) : res' = Res(r.err, x)
    /\ UNCHANGED <<vec, heap>>

\* o.at(i) = x;  through the E& that the non-const at returns
AtAssign(o, i, x) ==
    /\ Usable(o)
    /\ LET r == at(heap, vec[o], i)
       IN  IF r.err = "none"
           THEN heap' = Store(heap, vec[o].pv, i, x) /\ res' = Returns
           ELSE heap' = heap /\ res' = Res(r.err, Indet)
    /\ vec' = vec

Front(o) ==
    /\ Usable(o)
    /\ LET r == front(heap, vec[o])
       IN  \E x \in Returned(r) : res' = Res(r.err, x)
    /\ UNCHANGED <<vec, heap>>

Back(o) ==
    /\ Usable(o)
    /\ LET r == back(heap, vec[o])
       IN  \E x \in Returned(r) : res' = Res(r.err, x)
    /\ UNCHANGED <<vec, heap>>

Clear(o) ==
    /\ Usable(o)
    /\ vec' = [vec EXCEPT ![o] = clear(vec[o])]
    /\ heap' = heap
    /\ res' = Returns

\* o.swap(a)
Swap(o, a) ==
    /\ Live(o)
    /\ Live(a)
    /\ LET s == swap(vec[o], vec[a])
       IN  vec' = [vec EXCEPT ![o] = s.this, ![a] = IF a = o THEN s.this ELSE s.that]
    /\ heap' = heap
    /\ res' = Returns

\* o = a;  the parameter is copy-constructed from a
Assign(o, a) ==
    /\ Live(o)
    /\ Usable(a)
    /\ LET c == VectorCopy(heap, vec[a])
           r == OpAssign(c.h, vec[o], c.v)
       IN  /\ heap' = r.h
           /\ vec' = [vec EXCEPT ![o] = r.v]
    /\ res' = Returns

\* o = std::move(a);  the parameter is move-constructed from a
MoveAssign(o, a) ==
    /\ Live(o)
    /\ Usable(a)
    /\ LET m    == VectorMove(vec[a])
           this == IF a = o THEN m.that ELSE vec[o]
           r    == OpAssign(heap, this, m.v)
       IN  /\ heap' = r.h
           /\ vec' = [vec EXCEPT ![a] = m.that, ![o] = r.v]
    /\ res' = Returns

\* o += a;
PlusAssign(o, a) ==
    /\ Usable(o)
    /\ Usable(a)
    /\ LET r == OpPlusAssign(heap, vec[o], vec[a], a = o)
       IN  /\ heap' = r.h
           /\ vec' = [vec EXCEPT ![o] = r.v]
    /\ res' = Returns

\* Vector<E> o = a + b;  lhs is copy-constructed from a
Plus(o, a, b) ==
    /\ ~Live(o)
    /\ Usable(a)
    /\ Usable(b)
    /\ LET c == VectorCopy(heap, vec[a])
           r == OpPlus(c.h, c.v, vec[b])
       IN  /\ heap' = r.h
           /\ vec' = [vec EXCEPT ![o] = r.v]
    /\ res' = Returns

\* what a caller reads of a Vector v on h: size(), capacity() and the
\* elements from begin() to end()
Seen(h, v) ==
    [n |-> size(v), N |-> capacity(v), elems |-> [k \in 1..v.n |-> Load(h, v.pv, k - 1)]]

\* a + b as a temporary: lhs is copy-constructed from a, the temporary is
\* read and then destroyed at the end of the full expression
Concat(a, b) ==
    /\ Usable(a)
    /\ Usable(b)
    /\ LET c == VectorCopy(heap, vec[a])
           r == OpPlus(c.h, c.v, vec[b])
       IN  /\ res' = Res("none", Seen(r.h, r.v))
           /\ heap' = VectorDtor(r.h, r.v)
    /\ vec' = vec

\* a == b
Equals(a, b) ==
    /\ Usable(a)
    /\ Usable(b)
    /\ \E r \in OpEq(heap, vec[a], vec[b], a = b) : res' = Res("none", r)
    /\ UNCHANGED <<vec, heap>>

\* a != b
NotEquals(a, b) ==
    /\ Usable(a)
    /\ Usable(b)
    /\ \E r \in OpNe(heap, vec[a], vec[b], a = b) : res' = Res("none", r)
    /\ UNCHANGED <<vec, heap>>

\* a == Vector<E>(a): a compared with a temporary copy of it
EqualsCopy(a) ==
    /\ Usable(a)
    /\ LET c == VectorCopy(heap, vec[a])
       IN  /\ \E r \in OpEq(c.h, vec[a], c.v, FALSE) : res' = Res("none", r)
           /\ heap' = VectorDtor(c.h, c.v)
    /\ vec' = vec

\* the indexes a caller passes for a Vector of n elements: every valid one,
\* and one on either side
Indexes(o) == -1..(vec[o].n + 1)

\* the log of a call
Called(op, i, v) == [op |-> op, i |-> i, v |-> v]

\* one Vector, object 1, constructed with a count of counts
InitWith(counts) ==
    \E count \in counts :
        LET c == Vector(EmptyHeap, count)
        IN  /\ heap = c.h
            /\ vec = [o \in Objs |-> IF o = 1 THEN c.v ELSE NoVector]
            /\ res = Returns
            /\ call = Called("Vector", count, 0)

(***************************************************************************)
(* SpecOne: one Vector, constructed with any count, and the calls on it,   *)
(* each logged.                                                            *)
(***************************************************************************)
InitOne == InitWith(Counts)

NextOne ==
    \/ \E e \in Elem :
          /\ vec[1].n < OneMaxLen
          /\ InsertBack(1, e)
          /\ call' = Called("insert_back", 0, e)
    \/ \E i \in Indexes(1), e \in Elem :
          /\ vec[1].n < OneMaxLen
          /\ Insert(1, i, e)
          /\ call' = Called("insert", i, e)
    \/ \E i \in Indexes(1) : Remove(1, i) /\ call' = Called("remove", i, 0)
    \/ RemoveBack(1) /\ call' = Called("remove_back", 0, 0)
    \/ \E i \in Indexes(1) : At(1, i) /\ call' = Called("at", i, 0)
    \/ Front(1) /\ call' = Called("front", 0, 0)
    \/ Back(1) /\ call' = Called("back", 0, 0)
    \/ Clear(1) /\ call' = Called("clear", 0, 0)

SpecOne == InitOne /\ [][NextOne]_vars

(***************************************************************************)
(* SpecPush: one Vector constructed with a positive count, and insert_back *)
(* calls only.                                                             *)
(***************************************************************************)
InitPush == InitWith(PosCounts)

NextPush ==
    \E e \in Elem : vec[1].n < PushMaxLen /\ InsertBack(1, e) /\ UNCHANGED call

SpecPush == InitPush /\ [][NextPush]_vars

(***************************************************************************)
(* SpecOwn: the Vectors constructed, copied, moved, assigned, swapped,     *)
(* concatenated, grown, shrunk and destroyed.  The calls are those that    *)
(* return: SpecOne has the ones that throw, which change nothing.          *)
(***************************************************************************)
InitOwn ==
    /\ vec = [o \in Objs |-> NoVector]
    /\ heap = EmptyHeap
    /\ res = Returns
    /\ call = Called("none", 0, 0)

OwnRoom(a, b) ==
    /\ vec[a].n + vec[b].n <= OwnMaxLen
    /\ vec[a].N + vec[b].N <= OwnMaxCap

NextOwn ==
    \/ \E o \in Objs, count \in 0..OwnMaxCount : Create(o, count) /\ UNCHANGED call
    \/ \E o, a \in Objs : CopyOf(o, a) /\ UNCHANGED call
    \/ \E o, a \in Objs : MoveOf(o, a) /\ UNCHANGED call
    \/ \E o \in Objs : Destroy(o) /\ UNCHANGED call
    \/ \E o \in Objs, e \in Elem :
          vec[o].n < OwnMaxLen /\ InsertBack(o, e) /\ UNCHANGED call
    \/ \E o \in Objs : \E i \in 0..(vec[o].n - 1) : Remove(o, i) /\ UNCHANGED call
    \/ \E o \in Objs : vec[o].n > 0 /\ RemoveBack(o) /\ UNCHANGED call
    \/ \E o, a \in Objs : Swap(o, a) /\ UNCHANGED call
    \/ \E o, a \in Objs : Assign(o, a) /\ UNCHANGED call
    \/ \E o, a \in Objs : MoveAssign(o, a) /\ UNCHANGED call
    \/ \E o, a \in Objs : OwnRoom(o, a) /\ PlusAssign(o, a) /\ UNCHANGED call
    \/ \E o, a, b \in Objs : OwnRoom(a, b) /\ Plus(o, a, b) /\ UNCHANGED call

SpecOwn == InitOwn /\ [][NextOwn]_vars

(***************************************************************************)
(* SpecDefault: Vectors constructed with the default capacity.  Object 1   *)
(* takes every call that changes a Vector; object 2 is the other operand   *)
(* of operator= and operator+=, filled by insert_back.                     *)
(***************************************************************************)
InitDefault ==
    LET c1 == Vector(EmptyHeap, DEFAULT_CAPACITY)
        c2 == Vector(c1.h, DEFAULT_CAPACITY)
    IN  /\ heap = c2.h
        /\ vec = [o \in Objs |-> IF o = 1 THEN c1.v ELSE c2.v]
        /\ res = Returns
        /\ call = Called("Vector", DEFAULT_CAPACITY, 0)

DefRoom(a, b) ==
    /\ vec[a].n + vec[b].n <= DefMaxLen
    /\ vec[a].N + vec[b].N <= DefMaxCap

NextDefault ==
    \/ \E o \in Objs, e \in Elem :
          vec[o].n < DefMaxLen /\ InsertBack(o, e) /\ UNCHANGED call
    \/ \E i \in Indexes(1), e \in Elem :
          vec[1].n < DefMaxLen /\ Insert(1, i, e) /\ UNCHANGED call
    \/ \E i \in Indexes(1) : Remove(1, i) /\ UNCHANGED call
    \/ RemoveBack(1) /\ UNCHANGED call
    \/ Clear(1) /\ UNCHANGED call
    \/ Swap(1, 1) /\ UNCHANGED call
    \/ \E a \in Objs : Assign(1, a) /\ UNCHANGED call
    \/ \E a \in Objs : DefRoom(1, a) /\ PlusAssign(1, a) /\ UNCHANGED call

SpecDefault == InitDefault /\ [][NextDefault]_vars

(***************************************************************************)
(* SpecCat: two Vectors of any two capacities, filled by insert_back,      *)
(* concatenated and compared.  The calls that hand a value to the caller   *)
(* are logged by the name of the operator.                                 *)
(***************************************************************************)
InitBoth(counts) ==
    \E c1, c2 \in counts :
        LET v1 == Vector(EmptyHeap, c1)
            v2 == Vector(v1.h, c2)
        IN  /\ heap = v2.h
            /\ vec = [o \in Objs |-> IF o = 1 THEN v1.v ELSE v2.v]
            /\ res = Returns
            /\ call = Called("none", 0, 0)

InitCat == InitBoth(1..CatMaxCount)

CatInsertRoom(o) ==
    /\ vec[o].n < CatMaxLen
    /\ vec[o].n = vec[o].N => 2 * vec[o].N <= CatMaxCap

CatRoom(a, b) ==
    /\ vec[a].n + vec[b].n <= CatMaxLen
    /\ vec[a].N + vec[b].N <= CatMaxCap

NextCat ==
    \/ \E o \in Objs, e \in Elem :
          CatInsertRoom(o) /\ InsertBack(o, e) /\ call' = Called("none", 0, 0)
    \/ \E o, a \in Objs :
          CatRoom(o, a) /\ PlusAssign(o, a) /\ call' = Called("none", 0, 0)
    \/ \E a, b \in Objs : Concat(a, b) /\ call' = Called("operator+", 0, 0)
    \/ \E a, b \in Objs : Equals(a, b) /\ call' = Called("operator==", 0, 0)
    \/ \E a, b \in Objs : NotEquals(a, b) /\ call' = Called("operator!=", 0, 0)
    \/ \E a \in Objs : EqualsCopy(a) /\ call' = Called("operator==", 0, 0)

SpecCat == InitCat /\ [][NextCat]_vars

(***************************************************************************)
(* SpecAssign: two Vectors of any two capacities, filled by insert_back    *)
(* and assigned to each other and to themselves.                           *)
(***************************************************************************)
InitAssign == InitBoth(1..AssignMaxCount)

AssignInsertRoom(o) ==
    /\ vec[o].n < AssignMaxLen
    /\ vec[o].n = vec[o].N => 2 * vec[o].N <= AssignMaxCap

NextAssign ==
    \/ \E o \in Objs, e \in Elem :
          AssignInsertRoom(o) /\ InsertBack(o, e) /\ call' = Called("none", 0, 0)
    \/ \E o, a \in Objs : Assign(o, a) /\ call' = Called("operator=", 0, 0)

SpecAssign == InitAssign /\ [][NextAssign]_vars

(***************************************************************************)
(* SpecCopy: a Vector (object 1), a copy of it made at any moment (object  *)
(* 2), and the calls that change either; the calls are those that return.  *)
(***************************************************************************)
InitCopy == InitWith(1..CopyMaxCount)

CopyRoom(a, b) ==
    /\ vec[a].n + vec[b].n <= CopyMaxLen
    /\ vec[a].N + vec[b].N <= CopyMaxCap

CopyInsertRoom(o) ==
    /\ vec[o].n < CopyMaxLen
    /\ vec[o].n = vec[o].N => 2 * vec[o].N <= CopyMaxCap

NextCopy ==
    \/ CopyOf(2, 1) /\ UNCHANGED call
    \/ \E o \in Objs, e \in Elem :
          CopyInsertRoom(o) /\ InsertBack(o, e) /\ UNCHANGED call
    \/ \E o \in Objs : \E i \in 0..vec[o].n, e \in Elem :
          CopyInsertRoom(o) /\ Insert(o, i, e) /\ UNCHANGED call
    \/ \E o \in Objs : \E i \in 0..(vec[o].n - 1) : Remove(o, i) /\ UNCHANGED call
    \/ \E o \in Objs : vec[o].n > 0 /\ RemoveBack(o) /\ UNCHANGED call
    \/ \E o \in Objs : \E i \in 0..(vec[o].n - 1), e \in Elem :
          AtAssign(o, i, e) /\ UNCHANGED call
    \/ \E o \in Objs : Clear(o) /\ UNCHANGED call
    \/ \E o, a \in Objs : CopyRoom(o, a) /\ PlusAssign(o, a) /\ UNCHANGED call

SpecCopy == InitCopy /\ [][NextCopy]_vars

(***************************************************************************)
(* The claims.                                                             *)
(***************************************************************************)
\* o is a Vector of the data model: in its lifetime, owning storage, with
\* 0 <= length <= capacity
WellFormed(o) == Usable(o) /\ size(vec[o]) <= capacity(vec[o])

\* what at(0), ..., at(size() - 1) yield on (h, v): [err, val] each
AtAll(h, v) == [k \in 1..size(v) |-> at(h, v, k - 1)]

\* at(i) returns (a reference to) the element x
Yields(x) == [err |-> "none", val |-> x]

\* C1: in SpecPush (a Vector constructed empty with a positive count, then
\* insert_back calls only) every insert_back(e) returns, makes size() one
\* more, and leaves at(i) as it was for every old i and yielding e for the
\* new last i: so after k calls size() = k and at(i) is the i-th value.
C1_InsertBackAppends ==
    [][\A e \in Elem :
          InsertBack(1, e) =>
              /\ res'.err = "none"
              /\ size(vec'[1]) = size(vec[1]) + 1
              /\ AtAll(heap', vec'[1]) = Append(AtAll(heap, vec[1]), Yields(e))
              /\ \A k \in 1..size(vec[1]) : AtAll(heap, vec[1])[k].val \in Elem]_vars

\* C1, witness: eleven values were inserted into a Vector of the default
\* capacity, which doubled once
C1_Witness ==
    /\ capacity(vec[1]) = 2 * DEFAULT_CAPACITY
    /\ size(vec[1]) = DEFAULT_CAPACITY + 1
    /\ Contents(1)[1] = 1
    /\ Contents(1)[DEFAULT_CAPACITY] = 2
    /\ Contents(1)[DEFAULT_CAPACITY + 1] = 1

\* C2: in SpecDefault (Vectors constructed with the default capacity) every
\* Vector has length <= capacity and capacity >= DEFAULT_CAPACITY, in every
\* reachable state.
C2_CapacityNeverBelowDefault ==
    \A o \in Objs :
        Live(o) =>
            /\ size(vec[o]) <= capacity(vec[o])
            /\ capacity(vec[o]) >= DEFAULT_CAPACITY

\* C3: remove_back() on a Vector of length L > 0 returns, leaves length L - 1
\* and the elements at [0, L - 1) as they were.
C3_RemoveBackDropsLast ==
    [][(WellFormed(1) /\ size(vec[1]) > 0 /\ call'.op = "remove_back" /\ RemoveBack(1)) =>
          /\ res'.err = "none"
          /\ size(vec'[1]) = size(vec[1]) - 1
          /\ Contents(1)' = SubSeq(Contents(1), 1, size(vec[1]) - 1)]_vars

\* C4: remove at any index i of [0, L) of a Vector of length L >= 1 leaves
\* length L - 1 and, first to last, the old elements without the one at i.
C4_RemoveExcises ==
    [][\A i \in 0..(size(vec[1]) - 1) :
          (WellFormed(1) /\ call'.op = "remove" /\ Remove(1, i)) =>
              /\ size(vec'[1]) = size(vec[1]) - 1
              /\ Contents(1)' = SubSeq(Contents(1), 1, i)
                                    \o SubSeq(Contents(1), i + 2, size(vec[1]))]_vars

\* C5: insert at any index i of [0, L] of a Vector of length L (also when
\* L = capacity) leaves length L + 1, at(i) yielding the value, the elements
\* of [0, i) where they were and those of [i, L) one place further.
C5_InsertPlaces ==
    [][\A i \in 0..size(vec[1]), e \in Elem :
          (WellFormed(1) /\ call'.op = "insert" /\ Insert(1, i, e)) =>
              /\ size(vec'[1]) = size(vec[1]) + 1
              /\ at(heap', vec'[1], i) = Yields(e)
              /\ Contents(1)' = SubSeq(Contents(1), 1, i) \o <<e>>
                                    \o SubSeq(Contents(1), i + 1, size(vec[1]))]_vars

\* C6: the first insert_back(e) on a Vector constructed with count 0 grows
\* it: afterwards capacity > 0, size() = 1, at(0) yields e, length <= capacity.
C6_ZeroCapacityGrows ==
    [][\A e \in Elem :
          (capacity(vec[1]) = 0 /\ size(vec[1]) = 0
             /\ call'.op = "insert_back" /\ InsertBack(1, e)) =>
              /\ capacity(vec'[1]) > 0
              /\ size(vec'[1]) = 1
              /\ at(heap', vec'[1], 0) = Yields(e)
              /\ size(vec'[1]) <= capacity(vec'[1])]_vars

\* C7: a checked call throws exactly on invalid input: at(i) iff i is
\* outside [0, length), insert at i iff i is outside [0, length], remove at i
\* iff i is outside [0, length), front, back and remove_back iff length = 0.
C7_ThrowsExactlyOnInvalid ==
    [][LET L      == size(vec[1])
           i      == call'.i
           thrown == res'.err # "none"
       IN  /\ call'.op = "at" => (thrown <=> ~(0 <= i /\ i < L))
           /\ call'.op = "insert" => (thrown <=> ~(0 <= i /\ i <= L))
           /\ call'.op = "remove" => (thrown <=> ~(0 <= i /\ i < L))
           /\ call'.op \in {"front", "back", "remove_back"} => (thrown <=> L = 0)]_vars

\* C7, witness: at(size()) threw on a Vector that holds elements
C7_Witness ==
    /\ call.op = "at"
    /\ call.i = size(vec[1])
    /\ res.err = "Vector::at"
    /\ size(vec[1]) > 0

\* C8: a call that throws leaves every Vector and every block as it was.
C8_ThrowChangesNothing ==
    [][res'.err # "none" => vec' = vec /\ heap' = heap]_vars

\* C8, witness: insert threw on a full Vector that holds elements
C8_Witness ==
    /\ call.op = "insert"
    /\ res.err = "Vector::insert() i out of range."
    /\ size(vec[1]) > 0
    /\ size(vec[1]) = capacity(vec[1])

\* C9: after Vector o(std::move(a)), o has the length, capacity and elements
\* a had, and a is empty: a.size() = 0, a.empty(), and a.pv no longer points
\* to the storage.
C9_MovedFromIsEmpty ==
    [][\A o, a \in Objs :
          (WellFormed(a) /\ MoveOf(o, a)) =>
              /\ size(vec'[o]) = size(vec[a])
              /\ capacity(vec'[o]) = capacity(vec[a])
              /\ Contents(o)' = Contents(a)
              /\ size(vec'[a]) = 0
              /\ empty(vec'[a])
              /\ vec'[a].pv # vec'[o].pv]_vars

Value(o) == <<size(vec[o]), capacity(vec[o]), Contents(o)>>

\* every element of o is a value that was put there
Determined(o) == \A k \in 1..size(vec[o]) : Contents(o)[k] \in Elem

\* a call of a member that changes o (the other operand of += is any a)
Mutates(o) ==
    \/ \E e \in Elem : InsertBack(o, e)
    \/ \E i \in 0..size(vec[o]), e \in Elem : Insert(o, i, e)
    \/ \E i \in 0..(size(vec[o]) - 1) : Remove(o, i)
    \/ RemoveBack(o)
    \/ \E i \in 0..(size(vec[o]) - 1), e \in Elem : AtAssign(o, i, e)
    \/ Clear(o)
    \/ \E a \in Objs : PlusAssign(o, a)

\* C11: Vector<E> y(x) gives y the length, the capacity and the elements of
\* x, first to last, in a block of its own, and leaves x as it was; from then
\* on a call that changes one of the two (insert_back, insert, remove,
\* remove_back, at(i) = v, clear, +=) leaves the length, the capacity and the
\* elements of the other as they were.
C11_CopyIsIndependent ==
    [][/\ CopyOf(2, 1) =>
              /\ Value(2)' = Value(1)
              /\ Determined(2)'
              /\ vec'[2].pv # vec'[1].pv
              /\ heap'[vec'[2].pv].st = "live"
              /\ Value(1)' = Value(1)
       /\ \A o, a \in Objs :
              (o # a /\ Usable(a) /\ Mutates(o)) =>
                  /\ Value(a)' = Value(a)
                  /\ Determined(a)']_vars

\* C11, witness: the copy and the original, each with elements, have come
\* to differ in length, capacity and elements
C11_Witness ==
    /\ Usable(1)
    /\ Usable(2)
    /\ size(vec[1]) = 2
    /\ size(vec[2]) = 1
    /\ capacity(vec[1]) # capacity(vec[2])
    /\ Contents(1)[1] # Contents(2)[1]

\* C12: a + b is a Vector of size() a.size() + b.size() whose elements are
\* those of a, first to last, then those of b, and leaves a and b (also when
\* they are one object, and when either is empty) and the heap as they were;
\* o += a leaves in o the elements of o then those of a, with size() the sum
\* of the sizes and capacity() at least the sum of the capacities, and
\* leaves a, when it is another object, as it was.
C12_ConcatenationAppends ==
    [][/\ \A a, b \in Objs :
              (call'.op = "operator+" /\ Concat(a, b)) =>
                  /\ res'.ret.n = size(vec[a]) + size(vec[b])
                  /\ res'.ret.elems = Contents(a) \o Contents(b)
                  /\ \A k \in 1..res'.ret.n : res'.ret.elems[k] \in Elem
                  /\ Value(a)' = Value(a)
                  /\ Value(b)' = Value(b)
                  /\ heap' = heap
       /\ \A o, a \in Objs :
              (call'.op = "none" /\ PlusAssign(o, a)) =>
                  /\ size(vec'[o]) = size(vec[o]) + size(vec[a])
                  /\ Contents(o)' = Contents(o) \o Contents(a)
                  /\ Determined(o)'
                  /\ capacity(vec'[o]) >= capacity(vec[o]) + capacity(vec[a])
                  /\ o # a => Value(a)' = Value(a)]_vars

\* C12, witness: a + b was read for two different Vectors with elements,
\* after one of them was concatenated with itself in place
C12_Witness ==
    /\ call.op = "operator+"
    /\ res.ret.elems = <<1, 1, 2>>
    /\ Contents(1) = <<1, 1>>
    /\ Contents(2) = <<2>>

\* C13: the capacity changes by the doubling and halving policy only: an
\* insert_back changes it only when length = capacity before the call, and
\* then to twice the capacity; a remove_back on a Vector of length L changes
\* it only when the length after the removal, L - 1, is capacity / 4 and > 0,
\* and then to capacity / 2.
C13_CapacityPolicy ==
    [][/\ \A e \in Elem :
              (WellFormed(1) /\ call'.op = "insert_back" /\ InsertBack(1, e)) =>
                  (capacity(vec'[1]) # capacity(vec[1]) =>
                       /\ size(vec[1]) = capacity(vec[1])
                       /\ capacity(vec'[1]) = 2 * capacity(vec[1]))
       /\ (WellFormed(1) /\ size(vec[1]) > 0
             /\ call'.op = "remove_back" /\ RemoveBack(1)) =>
              (capacity(vec'[1]) # capacity(vec[1]) =>
                   /\ size(vec[1]) - 1 = capacity(vec[1]) \div 4
                   /\ size(vec[1]) - 1 > 0
                   /\ capacity(vec'[1]) = capacity(vec[1]) \div 2)]_vars

\* C14: o = a leaves o with the length and the elements of a, first to last,
\* leaves a as it was and in a live block of its own that is not o's, and
\* releases the block o had exactly once (it is free afterwards, not deleted
\* twice, and no other block is released or kept); x = x leaves the length,
\* the capacity and the elements of x as they were.
C14_AssignCopies ==
    [][\A o, a \in Objs :
          (call'.op = "operator=" /\ Assign(o, a)) =>
              /\ size(vec'[o]) = size(vec[a])
              /\ Contents(o)' = Contents(a)
              /\ Determined(o)'
              /\ Value(a)' = Value(a)
              /\ o # a => vec'[a] = vec[a] /\ vec'[o].pv # vec'[a].pv
              /\ heap'[vec'[a].pv].st = "live"
              /\ heap'[vec'[o].pv].st = "live"
              /\ vec'[o].pv # vec[o].pv
              /\ heap'[vec[o].pv].st = "free"
              /\ \A b \in Blocks \ {vec[o].pv, vec'[o].pv} : heap'[b] = heap[b]]_vars

\* C14, witness: o = a was called on two Vectors of different lengths and
\* capacities and left them with the same two elements in two blocks
C14_Witness ==
    /\ call.op = "operator="
    /\ Contents(1) = <<1, 2>>
    /\ Contents(2) = <<1, 2>>
    /\ vec[1].pv # vec[2].pv
    /\ Cardinality({b \in Blocks : heap[b].st = "live"}) = 2

\* the load factor of v is within [1/4, 1], or its capacity is the default
LoadFactor(v) ==
    \/ capacity(v) = DEFAULT_CAPACITY
    \/ size(v) <= capacity(v) /\ capacity(v) < 4 * size(v)

SameElements(a, b) ==
    /\ size(vec[a]) = size(vec[b])
    /\ \A k \in 1..size(vec[a]) : Contents(a)[k] = Contents(b)[k]

\* C16: a == b is true exactly when a and b have the same length and equal
\* elements at every position of [0, length), whatever their capacities: so
\* x == x is true, x == Vector(x) (a copy of x) is true, a == b is false
\* when the sizes differ; and a != b is the negation of a == b.
C16_EqualsIsElementwise ==
    [][/\ \A a, b \in Objs :
              (call'.op = "operator==" /\ Equals(a, b)) =>
                  /\ res'.ret <=> SameElements(a, b)
                  /\ a = b => res'.ret
                  /\ size(vec[a]) # size(vec[b]) => ~res'.ret
       /\ \A a \in Objs :
              (call'.op = "operator==" /\ EqualsCopy(a)) => res'.ret
       /\ \A a, b \in Objs :
              (call'.op = "operator!=" /\ NotEquals(a, b)) =>
                  /\ res'.ret <=> ~SameElements(a, b)
                  /\ res'.ret \in {~r : r \in OpEq(heap, vec[a], vec[b], a = b)}]_vars

\* C16, witness: a == b was true of two Vectors of different capacities
\* that hold elements
C16_Witness ==
    /\ call.op = "operator=="
    /\ res.ret = TRUE
    /\ size(vec[1]) > 0
    /\ SameElements(1, 2)
    /\ capacity(vec[1]) # capacity(vec[2])

\* C17: the assertion of reserve, count >= size(), holds in every call of
\* reserve that a call of insert_back (reserve(N * 2)), remove and
\* remove_back (reserve(N / 2)) and operator+= (reserve(N + that.N)) makes,
\* in every reachable state.
C17_ReserveAssertionHolds ==
    [][\A o \in Objs :
          /\ \A e \in Elem : InsertBack(o, e) => insert_back(heap, vec[o], e).ok
          /\ \A i \in 0..(size(vec[o]) - 1) : Remove(o, i) => remove(heap, vec[o], i).ok
          /\ RemoveBack(o) => remove_back(heap, vec[o]).ok
          /\ \A a \in Objs :
                 PlusAssign(o, a) => OpPlusAssign(heap, vec[o], vec[a], a = o).ok]_vars

\* C18: every element slot a call writes is a slot of the block, for a
\* Vector constructed with any count >= 0: the slot n that insert_back
\* writes, the slots [i, n] that insert writes (the backward shift and the
\* new element), the slots [n, n + that.n) that operator+= writes.
C18_WritesWithinBlock ==
    [][\A o \in Objs :
          /\ \A e \in Elem : InsertBack(o, e) => insert_back(heap, vec[o], e).inb
          /\ \A i \in 0..size(vec[o]), e \in Elem :
                 Insert(o, i, e) => insert(heap, vec[o], i, e).inb
          /\ \A a \in Objs :
                 PlusAssign(o, a) => OpPlusAssign(heap, vec[o], vec[a], a = o).inb]_vars

\* no insertion into (h, v) that returns calls reserve
NoGrowNext(h, v) ==
    /\ \A e \in Elem : ~insert_back(h, v, e).rsv
    /\ \A i \in 0..size(v), e \in Elem : ~insert(h, v, i, e).rsv

\* no removal from (h, v) that returns calls reserve
NoShrinkNext(h, v) ==
    /\ ~remove_back(h, v).rsv
    /\ \A i \in 0..(size(v) - 1) : ~remove(h, v, i).rsv

\* C19: a remove or remove_back that shrinks (calls reserve) leaves
\* length < capacity, so that no insert or insert_back called next grows;
\* after an insert or insert_back that grows (calls reserve) no remove or
\* remove_back called next shrinks.
C19_NoResizeThrashing ==
    [][/\ \A i \in 0..(size(vec[1]) - 1) :
              (call'.op = "remove" /\ Remove(1, i) /\ remove(heap, vec[1], i).rsv) =>
                  /\ size(vec'[1]) < capacity(vec'[1])
                  /\ NoGrowNext(heap', vec'[1])
       /\ (call'.op = "remove_back" /\ RemoveBack(1) /\ remove_back(heap, vec[1]).rsv) =>
              /\ size(vec'[1]) < capacity(vec'[1])
              /\ NoGrowNext(heap', vec'[1])
       /\ \A e \in Elem :
              (call'.op = "insert_back" /\ InsertBack(1, e)
                 /\ insert_back(heap, vec[1], e).rsv) => NoShrinkNext(heap', vec'[1])
       /\ \A i \in 0..size(vec[1]), e \in Elem :
              (call'.op = "insert" /\ Insert(1, i, e)
                 /\ insert(heap, vec[1], i, e).rsv) => NoShrinkNext(heap', vec'[1])]_vars

\* C19, witness: a Vector of the default capacity was halved by a removal
\* and holds elements
C19_Witness ==
    /\ call.op = "remove"
    /\ call.i = 0
    /\ res.err = "none"
    /\ 2 * capacity(vec[1]) = DEFAULT_CAPACITY
    /\ size(vec[1]) = 2

====
